---- MODULE Spec2Model ----
(***************************************************************************)
(* A model of the status-rollup engine: the Status enumeration and its     *)
(* text conversions, the three rollup rules and their factory, StatusNode, *)
(* and StatusTree::Impl (load_config, set_status, compute, get_status).    *)
(*                                                                         *)
(* Node identities are the integers 1..MaxNodes.  A description (the       *)
(* parsed "nodes" object) is a function from a subset of the identities to *)
(* node specifications; a node specification records which of the keys     *)
(* "type", "rule", "params", "dependencies" are present (has) and their    *)
(* values, so that json::value(key, default) is modelled by what it does.  *)
(*                                                                         *)
(* A StatusTree is built once: load_config is the construction of the      *)
(* graph and is called on a new tree.  leaf_nodes_ is written by           *)
(* load_config and never read, and is left out.                            *)
(***************************************************************************)
EXTENDS Integers, Sequences, FiniteSets, TLC

VARIABLES
    config,       \* the description handed to load_config (node_configs)
    nodes,        \* nodes_: identity -> [rule, deps] (StatusNode::rule_, dependencies_)
    pipeline,     \* elements registered in pipeline_: identity -> set of CGraph dependencies
    status,       \* StatusNode::status_ of every registered element
    buildResult,  \* "none" before load_config; afterwards how load_config returned
    op,           \* the last call made on the tree and what it returned:
                  \* [name, arg, val, err], and for load_config the derived nodes in
                  \* creation order (log) and the number of passes of its while loop,
                  \* for compute the number of compute calls in a row (streak)
    ruleIn,       \* rule under test: [inputs, red_threshold, yellow_to_yellow, yellow_to_red]
    ruleOut,      \* [rule, value] of the last RollupRule::compute call under test
    conv          \* conversion under test: [text, status, last], last the function called

vars == <<config, nodes, pipeline, status, buildResult, op, ruleIn, ruleOut, conv>>

treeVars == <<config, nodes, pipeline, status, buildResult, op>>

ruleVars == <<ruleIn, ruleOut>>

convVars == <<conv>>

-----------------------------------------------------------------------------
(* Bounds of the model *)

MaxNodes == 3

MaxDeps == 2

MaxLen == 3

MaxThreshold == 3

\* consecutive compute() calls are counted up to this number
MaxEvaluates == 2

-----------------------------------------------------------------------------
(* enum class Status : uint8_t *)

Green == 0

Yellow == 1

Red == 2

Unknown == 3

Status == {Green, Yellow, Red, Unknown}

Severity == {Green, Yellow, Red}

\* variant: the comparison made case-insensitive
string_to_status_any_case(s) ==
    IF s \in {"green", "Green", "GREEN", "grEen"} THEN Green
    ELSE IF s \in {"yellow", "Yellow", "YELLOW", "yelloW"} THEN Yellow
    ELSE IF s \in {"red", "Red", "RED", "reD"} THEN Red
    ELSE Unknown

string_to_status(s) ==
    IF s = "green" THEN Green
    ELSE IF s = "yellow" THEN Yellow
    ELSE IF s = "red" THEN Red
    ELSE Unknown

\* the switch over the four enumerators; the return after it is not reached
\* for a Status that holds one of them
status_to_string(s) ==
    CASE s = Green -> "green"
      [] s = Yellow -> "yellow"
      [] s = Red -> "red"
      [] s = Unknown -> "unknown"
      [] OTHER -> "unknown"

-----------------------------------------------------------------------------
(* The rollup rules, computed as the code computes them *)

RECURSIVE WorstLoop(_, _, _)
WorstLoop(inputs, i, worst) ==
    IF i > Len(inputs) THEN worst
    ELSE WorstLoop(inputs, i + 1, IF inputs[i] > worst THEN inputs[i] ELSE worst)

\* variant: Unknown inputs left out of the scan
WorstComputeNoUnknown(inputs) ==
    IF inputs = <<>> THEN Unknown
    ELSE WorstLoop(SelectSeq(inputs, LAMBDA s : s # Unknown), 1, Green)

\* variant: the scan starts from Unknown
WorstComputeFromUnknown(inputs) ==
    IF inputs = <<>> THEN Unknown ELSE WorstLoop(inputs, 1, Unknown)

WorstCompute(inputs) ==
    IF inputs = <<>> THEN Unknown ELSE WorstLoop(inputs, 1, Green)

RECURSIVE CountLoop(_, _, _)
\* the counting loop of ThresholdRollupRule::compute: <<red_count, yellow_count>>
CountLoop(inputs, i, counts) ==
    IF i > Len(inputs) THEN counts
    ELSE CountLoop(inputs, i + 1,
            IF inputs[i] = Red THEN <<counts[1] + 1, counts[2]>>
            ELSE IF inputs[i] = Yellow THEN <<counts[1], counts[2] + 1>>
            ELSE counts)

\* variant: yellow_to_yellow tested before yellow_to_red
ThresholdComputeYellowFirst(red_threshold, yellow_to_yellow, yellow_to_red, inputs) ==
    IF inputs = <<>> THEN Unknown
    ELSE LET c == CountLoop(inputs, 1, <<0, 0>>)
         IN  IF c[1] >= red_threshold THEN Red
             ELSE IF c[2] >= yellow_to_yellow THEN Yellow
             ELSE IF c[2] >= yellow_to_red THEN Red
             ELSE Green

ThresholdCompute(red_threshold, yellow_to_yellow, yellow_to_red, inputs) ==
    IF inputs = <<>> THEN Unknown
    ELSE LET c == CountLoop(inputs, 1, <<0, 0>>)
         IN  IF c[1] >= red_threshold THEN Red
             ELSE IF c[2] >= yellow_to_red THEN Red
             ELSE IF c[2] >= yellow_to_yellow THEN Yellow
             ELSE Green

RECURSIVE TallyLoop(_, _, _)
\* int counts[3], indexed by the status' ordinal, Unknown skipped
TallyLoop(inputs, i, counts) ==
    IF i > Len(inputs) THEN counts
    ELSE TallyLoop(inputs, i + 1,
            IF inputs[i] # Unknown
            THEN [counts EXCEPT ![inputs[i]] = @ + 1]
            ELSE counts)

RECURSIVE TallyLoopUnknownAsRed(_, _, _)
\* variant: an Unknown input tallied as Red
TallyLoopUnknownAsRed(inputs, i, counts) ==
    IF i > Len(inputs) THEN counts
    ELSE TallyLoopUnknownAsRed(inputs, i + 1,
            IF inputs[i] # Unknown
            THEN [counts EXCEPT ![inputs[i]] = @ + 1]
            ELSE [counts EXCEPT ![Red] = @ + 1])

RECURSIVE MajorityLoop(_, _, _, _)
\* the "find majority" loop: for (i = 0; i < 3; ++i) if (counts[i] > max_count) ...
MajorityLoop(counts, i, max_count, majority) ==
    IF i >= 3 THEN majority
    ELSE IF counts[i] > max_count
         THEN MajorityLoop(counts, i + 1, counts[i], i)
         ELSE MajorityLoop(counts, i + 1, max_count, majority)

RECURSIVE MajorityLoopLastWins(_, _, _, _)
\* variant: >= in place of >, the last status with the highest tally wins
MajorityLoopLastWins(counts, i, max_count, majority) ==
    IF i >= 3 THEN majority
    ELSE IF counts[i] >= max_count
         THEN MajorityLoopLastWins(counts, i + 1, counts[i], i)
         ELSE MajorityLoopLastWins(counts, i + 1, max_count, majority)

MajorityComputeLastWins(inputs) ==
    IF inputs = <<>> THEN Unknown
    ELSE MajorityLoopLastWins(TallyLoop(inputs, 1, [k \in 0..2 |-> 0]), 0, 0, Green)

MajorityComputeUnknownAsRed(inputs) ==
    IF inputs = <<>> THEN Unknown
    ELSE MajorityLoop(TallyLoopUnknownAsRed(inputs, 1, [k \in 0..2 |-> 0]), 0, 0, Green)

\* variant: majority starts as Unknown, which stands when no tally is above zero
MajorityComputeNoVoteUnknown(inputs) ==
    IF inputs = <<>> THEN Unknown
    ELSE MajorityLoop(TallyLoop(inputs, 1, [k \in 0..2 |-> 0]), 0, 0, Unknown)

MajorityCompute(inputs) ==
    IF inputs = <<>> THEN Unknown
    ELSE MajorityLoop(TallyLoop(inputs, 1, [k \in 0..2 |-> 0]), 0, 0, Green)

-----------------------------------------------------------------------------
(* RuleFactory::create and the rule objects it makes *)

\* json::value(key, default) on an object whose present keys are obj.has
Value(obj, key, default) == IF key \in obj.has THEN obj[key] ELSE default

NoRule == [name |-> "none", red_threshold |-> 0, yellow_to_yellow |-> 0, yellow_to_red |-> 0]

WorstStatusRule == [NoRule EXCEPT !.name = "worst_status"]

MajorityVoteRule == [NoRule EXCEPT !.name = "majority_vote"]

ThresholdRollupRule(red_threshold, yellow_to_yellow, yellow_to_red) ==
    [name |-> "threshold_rollup", red_threshold |-> red_threshold,
     yellow_to_yellow |-> yellow_to_yellow, yellow_to_red |-> yellow_to_red]

RuleNames == {"worst_status", "threshold_rollup", "majority_vote"}

\* variant: yellow_to_red defaults to 1
RuleFactoryCreateYellowToRedOne(rule_name, params) ==
    IF rule_name = "worst_status" THEN [ok |-> TRUE, rule |-> WorstStatusRule]
    ELSE IF rule_name = "threshold_rollup"
    THEN [ok |-> TRUE,
          rule |-> ThresholdRollupRule(Value(params, "red_threshold", 1),
                                       Value(params, "yellow_to_yellow", 1),
                                       Value(params, "yellow_to_red", 1))]
    ELSE IF rule_name = "majority_vote" THEN [ok |-> TRUE, rule |-> MajorityVoteRule]
    ELSE [ok |-> FALSE, rule |-> NoRule]

\* the result is [ok, rule]; ok = FALSE stands for the throw of "Unknown rule: ..."
RuleFactoryCreate(rule_name, params) ==
    IF rule_name = "worst_status" THEN [ok |-> TRUE, rule |-> WorstStatusRule]
    ELSE IF rule_name = "threshold_rollup"
    THEN [ok |-> TRUE,
          rule |-> ThresholdRollupRule(Value(params, "red_threshold", 1),
                                       Value(params, "yellow_to_yellow", 1),
                                       Value(params, "yellow_to_red", 2))]
    ELSE IF rule_name = "majority_vote" THEN [ok |-> TRUE, rule |-> MajorityVoteRule]
    ELSE [ok |-> FALSE, rule |-> NoRule]

\* virtual dispatch of RollupRule::compute
RuleCompute(rule, inputs) ==
    IF rule.name = "worst_status" THEN WorstCompute(inputs)
    ELSE IF rule.name = "threshold_rollup"
    THEN ThresholdCompute(rule.red_threshold, rule.yellow_to_yellow, rule.yellow_to_red, inputs)
    ELSE MajorityCompute(inputs)

-----------------------------------------------------------------------------
(* Descriptions *)

Ids == 1..MaxNodes

NoParams == [has |-> {}, red_threshold |-> 0, yellow_to_yellow |-> 0, yellow_to_red |-> 0]

\* a node specification with the given keys present
NodeSpec(has, type, rule, params, dependencies) ==
    [has |-> has, type |-> type, rule |-> rule, params |-> params,
     dependencies |-> dependencies]

ImportedSpec == NodeSpec({"type"}, "imported", "", NoParams, <<>>)

\* "type" defaults to "imported"
UntypedSpec == NodeSpec({}, "", "", NoParams, <<>>)

DepLists(S) == UNION {[1..n -> S] : n \in 0..MaxDeps}

\* derived specifications: rule and dependencies may each be absent
DerivedSpecs(ruleNames, depLists) ==
    {NodeSpec({"type", "rule", "dependencies"}, "derived", r, NoParams, d) :
        r \in ruleNames, d \in depLists}
    \cup {NodeSpec({"type"}, "derived", "", NoParams, <<>>)}

\* a "params" object with the given keys present
Params(has, red_threshold, yellow_to_yellow, yellow_to_red) ==
    [has |-> has, red_threshold |-> red_threshold,
     yellow_to_yellow |-> yellow_to_yellow, yellow_to_red |-> yellow_to_red]

\* threshold_rollup specifications over the first identity that carry "params"
ThresholdSpecs(paramObjects) ==
    {NodeSpec({"type", "rule", "params", "dependencies"}, "derived", "threshold_rollup",
              p, <<1>>) : p \in paramObjects}

Type(spec) == Value(spec, "type", "imported")

DepNames(spec) == Value(spec, "dependencies", <<>>)

RuleName(spec) == Value(spec, "rule", "worst_status")

-----------------------------------------------------------------------------
(* StatusTree::Impl::load_config *)

\* the iteration orders an unordered_map with keys S may have
Orders(S) ==
    {o \in [1..Cardinality(S) -> S] : \A i, j \in 1..Cardinality(S) : o[i] = o[j] => i = j}

\* first pass: every specification of type "imported" becomes a leaf element
Leaves(cfg) == {n \in DOMAIN cfg : Type(cfg[n]) = "imported"}

LeafNode == [rule |-> NoRule, deps |-> <<>>]

\* the state of the second pass; error is the exception in flight, "" for none
StartBuild(cfg) ==
    [nodes    |-> [n \in Leaves(cfg) |-> LeafNode],
     pipeline |-> [n \in Leaves(cfg) |-> {}],
     created  |-> Leaves(cfg),
     log      |-> <<>>,
     progress |-> TRUE,
     passes   |-> 0,
     error    |-> ""]

\* variant: the scan stops at the first dependency, ready or not
AllDepsReadyFirstOnly(dep_names, created) ==
    dep_names = <<>> \/ dep_names[1] \in created

\* all_deps_ready: every dependency name is in created
AllDepsReady(dep_names, created) ==
    \A k \in 1..Len(dep_names) : dep_names[k] \in created

\* one visit of the for loop of the second pass, for the specification of node_name
Visit(cfg, node_name, b) ==
    LET spec      == cfg[node_name]
        dep_names == DepNames(spec)
        found     == SelectSeq(dep_names, LAMBDA d : d \in DOMAIN b.nodes)
        deps      == {found[k] : k \in 1..Len(found)}
        made      == RuleFactoryCreate(RuleName(spec), Value(spec, "params", NoParams))
    IN  IF node_name \in b.created THEN b
        ELSE IF Type(spec) # "derived" THEN b
        ELSE IF ~AllDepsReady(dep_names, b.created) THEN b
        ELSE IF ~made.ok
        THEN \* registered in the pipeline, then RuleFactory::create throws
             [b EXCEPT !.pipeline = (node_name :> deps) @@ b.pipeline,
                       !.error = "unknown_rule"]
        ELSE [b EXCEPT !.pipeline = (node_name :> deps) @@ b.pipeline,
                       !.nodes = (node_name :> [rule |-> made.rule, deps |-> found]) @@ b.nodes,
                       !.created = b.created \cup {node_name},
                       !.log = Append(b.log, [node |-> node_name, pass |-> b.passes]),
                       !.progress = TRUE]

RECURSIVE Pass(_, _, _, _)
\* one execution of the for loop over node_configs, in iteration order
Pass(cfg, order, i, b) ==
    IF i > Len(order) \/ b.error # "" THEN b
    ELSE Pass(cfg, order, i + 1, Visit(cfg, order[i], b))

RECURSIVE WhileProgress(_, _, _)
\* while (progress) { progress = false; for (...) ... }
WhileProgress(cfg, order, b) ==
    IF ~b.progress \/ b.error # "" THEN b
    ELSE WhileProgress(cfg, order,
            Pass(cfg, order, 1, [b EXCEPT !.progress = FALSE, !.passes = b.passes + 1]))

\* variant: a single pass, no fixed point
SecondPassOnce(cfg, order, b) ==
    Pass(cfg, order, 1, [b EXCEPT !.progress = FALSE, !.passes = 1])

\* the second pass: the derived nodes, until a pass creates nothing
SecondPass(cfg, order, b) == WhileProgress(cfg, order, b)

\* variant: the final check left out
AllCreatedUnchecked(b, cfg) == TRUE

\* the final check: created.size() != node_configs.size() throws
AllCreated(b, cfg) == Cardinality(b.created) = Cardinality(DOMAIN cfg)

\* the whole call: the final state of the build and how the call returned
LoadConfigRun(cfg, order) ==
    LET b == SecondPass(cfg, order, StartBuild(cfg))
    IN  [b EXCEPT !.error = IF b.error # "" THEN b.error
                            ELSE IF ~AllCreated(b, cfg) THEN "structural"
                            ELSE "ok"]

-----------------------------------------------------------------------------
(* The descriptions the model builds *)

\* the "params" objects of the descriptions: empty, one key, two keys, all
BuildParams ==
    {NoParams,
     Params({"red_threshold"}, 2, 0, 0),
     Params({"yellow_to_yellow", "yellow_to_red"}, 0, 2, 3),
     Params({"red_threshold", "yellow_to_yellow", "yellow_to_red"}, 3, 1, 1)}

\* Every description over the identities: any node may be missing, a leaf, or
\* derived with any rule name (recognised or not) and any dependency list,
\* so cycles, self-dependencies and dangling references all occur; a
\* threshold_rollup node may carry "params".  The keys the code never reads
\* for a leaf ("rule", "dependencies") are left out.
BuildSpecs ==
    {ImportedSpec, UntypedSpec}
    \cup DerivedSpecs(RuleNames \cup {"bogus"}, DepLists(Ids))
    \cup ThresholdSpecs(BuildParams)

\* the descriptions that declare exactly the identities D
BuildDescriptions(D) == [D -> BuildSpecs]

\* The descriptions evaluated: every acyclic, fully resolved graph over the
\* identities that has a leaf, numbered so that dependencies have smaller
\* numbers and node 1 is a leaf (the iteration order of the mapping stays
\* arbitrary).
EvalSpecs(i) ==
    {ImportedSpec} \cup
    IF i = 1 THEN {}
    ELSE {NodeSpec({"type", "rule", "dependencies"}, "derived", r, NoParams, d) :
            r \in RuleNames, d \in DepLists(1..(i - 1))}

RECURSIVE EvalDescriptionsOn(_)
\* the descriptions f of the identities 1..n with f[i] \in EvalSpecs(i)
EvalDescriptionsOn(n) ==
    IF n = 0 THEN {<<>>}
    ELSE {Append(f, s) : f \in EvalDescriptionsOn(n - 1), s \in EvalSpecs(n)}

EvalDescriptions == EvalDescriptionsOn(MaxNodes)

-----------------------------------------------------------------------------
(* CGraph: GPipeline::process runs every registered element once, an element *)
(* after the elements it was registered as depending on                     *)

\* variant: elements registered without their dependencies
ProcessOrdersNoDeps(p) == Orders(DOMAIN p)

ProcessOrders(p) ==
    {o \in Orders(DOMAIN p) :
        \A i, j \in 1..Len(o) : o[j] \in p[o[i]] => j < i}

RECURSIVE Dedup(_)
\* seq without the later occurrences of an element
Dedup(seq) ==
    IF seq = <<>> THEN <<>>
    ELSE LET front == Dedup(SubSeq(seq, 1, Len(seq) - 1))
             last  == seq[Len(seq)]
         IN  IF \E k \in 1..Len(front) : front[k] = last THEN front
             ELSE Append(front, last)

\* variant: each dependency read once, however often it is declared
RunOnDependencySet(st, n) ==
    IF n \notin DOMAIN nodes \/ nodes[n].rule = NoRule THEN st
    ELSE LET once == Dedup(nodes[n].deps)
         IN  [st EXCEPT ![n] =
                RuleCompute(nodes[n].rule, [k \in 1..Len(once) |-> st[once[k]]])]

\* variant: a status that was already set is kept
RunUnlessAlreadySet(st, n) ==
    IF n \notin DOMAIN nodes \/ nodes[n].rule = NoRule \/ st[n] # Unknown THEN st
    ELSE [st EXCEPT ![n] =
            RuleCompute(nodes[n].rule,
                        [k \in 1..Len(nodes[n].deps) |-> st[nodes[n].deps[k]]])]

\* StatusNode::run on element n, with the statuses st
Run(st, n) ==
    IF n \notin DOMAIN nodes \/ nodes[n].rule = NoRule THEN st
    ELSE [st EXCEPT ![n] =
            RuleCompute(nodes[n].rule,
                        [k \in 1..Len(nodes[n].deps) |-> st[nodes[n].deps[k]]])]

RECURSIVE RunAll(_, _, _)
RunAll(st, order, i) ==
    IF i > Len(order) THEN st ELSE RunAll(Run(st, order[i]), order, i + 1)

-----------------------------------------------------------------------------
(* The operations of StatusTree *)

\* std::nullopt
Nothing == -1

\* an identity no description declares
NoId == 0

Call(name, arg, val, err) ==
    [name |-> name, arg |-> arg, val |-> val, err |-> err, log |-> <<>>, passes |-> 0,
     streak |-> 0]

TreeInit ==
    /\ config = <<>>
    /\ nodes = <<>>
    /\ pipeline = <<>>
    /\ status = <<>>
    /\ buildResult = "none"
    /\ op = Call("new", NoId, Nothing, "")

\* load_config on a new tree, with a description of the set descriptions
LoadConfig(descriptions) ==
    /\ buildResult = "none"
    /\ \E cfg \in descriptions : \E order \in Orders(DOMAIN cfg) :
          \E b \in {LoadConfigRun(cfg, order)} :
              /\ config' = cfg
              /\ nodes' = b.nodes
              /\ pipeline' = b.pipeline
              /\ status' = [n \in DOMAIN b.pipeline |-> Unknown]
              /\ buildResult' = b.error
              /\ op' = [Call("load_config", NoId, Nothing,
                             IF b.error = "ok" THEN "" ELSE b.error)
                            EXCEPT !.log = b.log, !.passes = b.passes]
    /\ UNCHANGED <<ruleVars, convVars>>

\* variant: a missing node reads as Unknown
GetStatusUnknownWhenAbsent(node_name) ==
    IF node_name \notin DOMAIN nodes THEN Unknown ELSE status[node_name]

\* what get_status(node_name) returns
GetStatus(node_name) ==
    IF node_name \notin DOMAIN nodes THEN Nothing ELSE status[node_name]

\* variant: the lookup is not checked
SetStatusNeverThrows(node_name) == FALSE

\* variant: an import on a derived node is rejected
SetStatusThrowsOnDerived(node_name) ==
    node_name \notin DOMAIN nodes \/ nodes[node_name].rule # NoRule

\* whether set_status(node_name, ...) throws "Unknown node: ..."
SetStatusThrows(node_name) == node_name \notin DOMAIN nodes

\* variant: an import evaluates the graph at once
SetStatusPropagating ==
    /\ \E node_name \in Ids \cup {NoId}, s \in Status :
          IF SetStatusThrows(node_name)
          THEN /\ op' = Call("set_status", node_name, s, "unknown_node")
               /\ UNCHANGED status
          ELSE /\ op' = Call("set_status", node_name, s, "")
               /\ \E order \in ProcessOrders(pipeline) :
                     status' = RunAll([status EXCEPT ![node_name] = s], order, 1)
    /\ UNCHANGED <<config, nodes, pipeline, buildResult, ruleVars, convVars>>

\* variant: the node is reached through nodes_[node_name], which adds an
\* entry, and no element, for a name that is not there
SetStatusInserting ==
    /\ \E node_name \in Ids \cup {NoId}, s \in Status :
          IF SetStatusThrows(node_name)
          THEN /\ op' = Call("set_status", node_name, s, "")
               /\ nodes' = (node_name :> LeafNode) @@ nodes
               /\ UNCHANGED status
          ELSE /\ op' = Call("set_status", node_name, s, "")
               /\ status' = [status EXCEPT ![node_name] = s]
               /\ UNCHANGED nodes
    /\ UNCHANGED <<config, pipeline, buildResult, ruleVars, convVars>>

SetStatus ==
    /\ \E node_name \in Ids \cup {NoId}, s \in Status :
          IF SetStatusThrows(node_name)
          THEN /\ op' = Call("set_status", node_name, s, "unknown_node")
               /\ UNCHANGED status
          ELSE /\ op' = Call("set_status", node_name, s, "")
               /\ status' = [status EXCEPT ![node_name] = s]
    /\ UNCHANGED <<config, nodes, pipeline, buildResult, ruleVars, convVars>>

\* a call of get_status: the state is left as it is
GetStatusCall ==
    /\ \E node_name \in Ids \cup {NoId} :
          op' = Call("get_status", node_name, GetStatus(node_name), "")
    /\ UNCHANGED <<config, nodes, pipeline, status, buildResult, ruleVars, convVars>>

Compute ==
    /\ \E order \in ProcessOrders(pipeline) : status' = RunAll(status, order, 1)
    /\ op' = [Call("compute", NoId, Nothing, "")
                 EXCEPT !.streak = IF op.streak < MaxEvaluates THEN op.streak + 1
                                   ELSE op.streak]
    /\ UNCHANGED <<config, nodes, pipeline, buildResult, ruleVars, convVars>>

-----------------------------------------------------------------------------
(* The rules called directly, as the unit tests call them *)

RuleInputs == UNION {[1..n -> Status] : n \in 0..MaxLen}

RuleInit ==
    /\ ruleIn \in [inputs : RuleInputs, red_threshold : 0..MaxThreshold,
                   yellow_to_yellow : 0..MaxThreshold, yellow_to_red : 0..MaxThreshold]
    /\ ruleOut = [rule |-> "none", value |-> Unknown]

ApplyWorst ==
    /\ ruleOut.rule = "none"
    /\ ruleOut' = [rule |-> "worst_status", value |-> WorstCompute(ruleIn.inputs)]
    /\ UNCHANGED <<ruleIn, treeVars, convVars>>

ApplyThreshold ==
    /\ ruleOut.rule = "none"
    /\ ruleOut' = [rule |-> "threshold_rollup",
                   value |-> ThresholdCompute(ruleIn.red_threshold, ruleIn.yellow_to_yellow,
                                              ruleIn.yellow_to_red, ruleIn.inputs)]
    /\ UNCHANGED <<ruleIn, treeVars, convVars>>

ApplyMajority ==
    /\ ruleOut.rule = "none"
    /\ ruleOut' = [rule |-> "majority_vote", value |-> MajorityCompute(ruleIn.inputs)]
    /\ UNCHANGED <<ruleIn, treeVars, convVars>>

-----------------------------------------------------------------------------
(* The conversions called directly, as the unit tests call them *)

\* the strings handed to string_to_status: the vocabulary, the same words in
\* other cases, with blanks, cut short or lengthened, and unrelated strings
Texts ==
    {"green", "yellow", "red", "unknown",
     "Green", "Yellow", "Red", "Unknown", "GREEN", "YELLOW", "RED", "UNKNOWN",
     "grEen", "yelloW", "reD", "", " ", "invalid", "green ", " green", "red ", " yellow",
     "gree", "greenn", "yello", "yelow", "re", "redd", "g", "y", "r", "u",
     "0", "1", "2", "3", "amber", "ok", "greenyellow", "red,green"}

ConvInit == conv \in [text : Texts, status : Status, last : {"none"}]

\* conv.status = string_to_status(conv.text)
StringToStatus ==
    /\ conv' = [conv EXCEPT !.status = string_to_status(conv.text),
                            !.last = "string_to_status"]
    /\ UNCHANGED <<treeVars, ruleVars>>

\* conv.text = status_to_string(conv.status)
StatusToString ==
    /\ conv' = [conv EXCEPT !.text = status_to_string(conv.status),
                            !.last = "status_to_string"]
    /\ UNCHANGED <<treeVars, ruleVars>>

-----------------------------------------------------------------------------
(* Specifications *)

NoConversion == conv = [text |-> "", status |-> Unknown, last |-> "none"]

NoRuleCall ==
    /\ ruleIn = [inputs |-> <<>>, red_threshold |-> 0, yellow_to_yellow |-> 0,
                 yellow_to_red |-> 0]
    /\ ruleOut = [rule |-> "none", value |-> Unknown]

\* a tree built from an acyclic description, then imports, evaluations and
\* queries
Init == TreeInit /\ NoRuleCall /\ NoConversion

Next == LoadConfig(EvalDescriptions) \/ SetStatus \/ Compute \/ GetStatusCall

Spec == Init /\ [][Next]_vars

\* the build alone, over every description
NextBuild == \E D \in SUBSET Ids : LoadConfig(BuildDescriptions(D))

SpecBuild == Init /\ [][NextBuild]_vars

\* the rules alone
InitRules == TreeInit /\ RuleInit /\ NoConversion

NextRules == ApplyWorst \/ ApplyThreshold \/ ApplyMajority

SpecRules == InitRules /\ [][NextRules]_vars

\* the conversions alone
InitConv == TreeInit /\ NoRuleCall /\ ConvInit

NextConv == StringToStatus \/ StatusToString

SpecConv == InitConv /\ [][NextConv]_vars

-----------------------------------------------------------------------------
(* Claims about the rules, under SpecRules *)

Range(seq) == {seq[k] : k \in 1..Len(seq)}

\* the number of inputs equal to s
CountOf(inputs, s) == Cardinality({k \in 1..Len(inputs) : inputs[k] = s})

WithoutUnknown(inputs) == SelectSeq(inputs, LAMBDA s : s # Unknown)

\* v is the maximum of the inputs under Green < Yellow < Red
IsSeverityMax(v, inputs) ==
    /\ v \in Severity
    /\ v \in Range(inputs)
    /\ \A s \in Range(inputs) \cap Severity : s <= v

\* the first status, in the order Green, Yellow, Red, whose tally is the highest
FirstHighest(inputs) ==
    CHOOSE s \in Severity :
        /\ \A t \in Severity : CountOf(inputs, t) <= CountOf(inputs, s)
        /\ \A t \in Severity : t < s => CountOf(inputs, t) < CountOf(inputs, s)

IsPermutation(p, inputs) ==
    /\ Len(p) = Len(inputs)
    /\ \A s \in Status : CountOf(p, s) = CountOf(inputs, s)

\* C7 as stated: Worst gives Unknown for the empty sequence and, for every
\* non-empty sequence of status values, the maximum element under the
\* severity order Green < Yellow < Red.
C7_WorstIsSeverityMax ==
    ruleOut.rule = "worst_status" =>
        IF ruleIn.inputs = <<>> THEN ruleOut.value = Unknown
        ELSE IsSeverityMax(ruleOut.value, ruleIn.inputs)

\* C7 amended: Worst gives Unknown for the empty sequence; for a non-empty
\* sequence over Green, Yellow, Red it gives the maximum under the severity
\* order; for a sequence that contains an Unknown input it gives Unknown
\* (Unknown takes part in the scan with its ordinal, above Red).
C7_WorstMaxUnknownOnTop ==
    ruleOut.rule = "worst_status" =>
        IF ruleIn.inputs = <<>> THEN ruleOut.value = Unknown
        ELSE IF Unknown \in Range(ruleIn.inputs) THEN ruleOut.value = Unknown
        ELSE IsSeverityMax(ruleOut.value, ruleIn.inputs)

C7_Witness ==
    /\ ruleOut.rule = "worst_status"
    /\ ruleIn.inputs = <<Green, Red, Yellow>>
    /\ ruleOut.value = Red

\* C8: Threshold gives Unknown for the empty sequence and otherwise decides
\* on the numbers of Red and Yellow inputs, first match wins: Red if
\* red_count >= red_threshold, else Red if yellow_count >= yellow_to_red,
\* else Yellow if yellow_count >= yellow_to_yellow, else Green.
C8_ThresholdFirstMatchWins ==
    ruleOut.rule = "threshold_rollup" =>
        LET red_count    == CountOf(ruleIn.inputs, Red)
            yellow_count == CountOf(ruleIn.inputs, Yellow)
        IN  ruleOut.value =
                IF ruleIn.inputs = <<>> THEN Unknown
                ELSE IF red_count >= ruleIn.red_threshold THEN Red
                ELSE IF yellow_count >= ruleIn.yellow_to_red THEN Red
                ELSE IF yellow_count >= ruleIn.yellow_to_yellow THEN Yellow
                ELSE Green

C8_Witness ==
    /\ ruleOut.rule = "threshold_rollup"
    /\ ruleIn = [inputs |-> <<Yellow, Yellow, Green>>, red_threshold |-> 2,
                 yellow_to_yellow |-> 1, yellow_to_red |-> 2]
    /\ ruleOut.value = Red

\* C9 as stated: for every input sequence MajorityVote returns the status
\* among Green, Yellow, Red with the highest tally, the first of them in the
\* order Green, Yellow, Red on a tie, and every permutation of the inputs
\* gives the same result.
C9_MajorityFirstHighest ==
    ruleOut.rule = "majority_vote" =>
        /\ ruleOut.value = FirstHighest(ruleIn.inputs)
        /\ \A p \in RuleInputs :
              IsPermutation(p, ruleIn.inputs) => MajorityCompute(p) = ruleOut.value

\* C9 amended: the same for every non-empty input sequence; the empty
\* sequence gives Unknown.
C9_MajorityFirstHighestNonEmpty ==
    ruleOut.rule = "majority_vote" =>
        IF ruleIn.inputs = <<>> THEN ruleOut.value = Unknown
        ELSE /\ ruleOut.value = FirstHighest(ruleIn.inputs)
             /\ \A p \in RuleInputs :
                   IsPermutation(p, ruleIn.inputs) => MajorityCompute(p) = ruleOut.value

C9_Witness ==
    /\ ruleOut.rule = "majority_vote"
    /\ ruleIn.inputs = <<Red, Yellow, Green>>
    /\ ruleOut.value = Green

\* C10: for every input sequence with at least one input that is not
\* Unknown, MajorityVote gives what it gives for the same sequence with the
\* Unknown inputs removed.
C10_MajorityIgnoresUnknown ==
    (ruleOut.rule = "majority_vote" /\ \E s \in Range(ruleIn.inputs) : s # Unknown) =>
        ruleOut.value = MajorityCompute(WithoutUnknown(ruleIn.inputs))

C10_Witness ==
    /\ ruleOut.rule = "majority_vote"
    /\ ruleIn.inputs = <<Unknown, Yellow, Unknown>>
    /\ ruleOut.value = Yellow

-----------------------------------------------------------------------------
(* Claims about the build, under SpecBuild *)

Derived(cfg) == {n \in DOMAIN cfg : Type(cfg[n]) = "derived"}

\* the identities a specification names as dependencies
DepsOfSpec(cfg, n) ==
    IF n \in Derived(cfg) THEN Range(DepNames(cfg[n])) ELSE {}

RECURSIVE Closure(_, _, _)
Closure(cfg, S, k) ==
    IF k = 0 THEN S
    ELSE Closure(cfg, S \cup UNION {DepsOfSpec(cfg, m) : m \in S}, k - 1)

\* the identities n depends on, directly or transitively
ReachPlus(cfg, n) == Closure(cfg, DepsOfSpec(cfg, n), MaxNodes)

OnCycle(cfg, n) == n \in ReachPlus(cfg, n)

Dangling(cfg, n) == \E m \in ReachPlus(cfg, n) : m \notin DOMAIN cfg

\* some derived node lies on a cycle or reaches an identity that is absent
BadDeps(cfg) == \E n \in Derived(cfg) : OnCycle(cfg, n) \/ Dangling(cfg, n)

\* n and everything it depends on is declared and lies on no cycle
Creatable(cfg, n) ==
    \A m \in ReachPlus(cfg, n) \cup {n} : m \in DOMAIN cfg /\ ~OnCycle(cfg, m)

RulesRecognised(cfg) == \A n \in Derived(cfg) : RuleName(cfg[n]) \in RuleNames

Loaded == op.name = "load_config"

\* C1: after a failed build, for either cause, no node of the description
\* is visible: get_status returns nothing and set_status throws for each.
C1_FailedBuildExposesNothing ==
    (Loaded /\ buildResult # "ok") =>
        \A n \in DOMAIN config : GetStatus(n) = Nothing /\ SetStatusThrows(n)

\* C2 as stated: the build of a description in which a derived node lies on
\* a cycle or references, directly or transitively, an absent identity
\* fails with the structural error.
C2_BadDepsFailStructural ==
    (Loaded /\ BadDeps(config)) => buildResult = "structural"

\* C2 amended: such a build never reports success; it fails with the
\* structural error, unless some derived node with an unrecognised rule name
\* has dependencies that can all be created, and then it fails with the
\* unknown-rule error.
C2_BadDepsFail ==
    (Loaded /\ BadDeps(config)) =>
        buildResult =
            IF \E n \in Derived(config) :
                  RuleName(config[n]) \notin RuleNames /\ Creatable(config, n)
            THEN "unknown_rule" ELSE "structural"

\* a cycle through two nodes or more ended in the structural error
C2_Witness ==
    /\ Loaded
    /\ buildResult = "structural"
    /\ \E n \in Derived(config) : OnCycle(config, n) /\ n \notin DepsOfSpec(config, n)

\* the graph the description denotes: its nodes, each a leaf or derived
\* with the named rule and the declared dependency list
IsGraphOf(cfg) ==
    /\ DOMAIN nodes = DOMAIN cfg
    /\ \A n \in DOMAIN cfg :
          IF Type(cfg[n]) = "imported" THEN nodes[n] = LeafNode
          ELSE /\ nodes[n].rule.name = RuleName(cfg[n])
               /\ nodes[n].deps = DepNames(cfg[n])

\* C3 as stated: for an acyclic description whose dependency identities all
\* resolve, the build succeeds under every iteration order and yields the
\* graph of the description.
C3_BuildOrderIndependent ==
    (Loaded /\ ~BadDeps(config)) => (buildResult = "ok" /\ IsGraphOf(config))

\* C3 amended: the same for an acyclic, fully resolved description in which
\* every derived node names a recognised rule.
C3_BuildOrderIndependentKnownRules ==
    (Loaded /\ ~BadDeps(config) /\ RulesRecognised(config)) =>
        (buildResult = "ok" /\ IsGraphOf(config))

\* dependents were visited before their dependencies: a node was created
\* only in the third pass
C3_Witness ==
    /\ Loaded
    /\ buildResult = "ok"
    /\ \E k \in 1..Len(op.log) : op.log[k].pass >= 3

\* the value a description gives a threshold parameter, or the default
ParamOr(spec, key, default) ==
    IF "params" \in spec.has /\ key \in spec.params.has THEN spec.params[key]
    ELSE default

\* C14: the build fails whenever the description holds a derived node whose
\* rule name is none of worst_status, threshold_rollup, majority_vote; a
\* derived node that names a recognised rule is given that rule, and a
\* threshold_rollup rule takes red_threshold = 1, yellow_to_yellow = 1,
\* yellow_to_red = 2 for the parameters the description omits.
C14_RulesResolved ==
    Loaded =>
        /\ (\E n \in Derived(config) :
               "rule" \in config[n].has /\ config[n].rule \notin RuleNames)
              => buildResult # "ok"
        /\ \A n \in Derived(config) \cap DOMAIN nodes :
               /\ "rule" \in config[n].has => nodes[n].rule.name = config[n].rule
               /\ nodes[n].rule.name = "worst_status" => nodes[n].rule = WorstStatusRule
               /\ nodes[n].rule.name = "majority_vote" => nodes[n].rule = MajorityVoteRule
               /\ nodes[n].rule.name = "threshold_rollup" =>
                     /\ nodes[n].rule.red_threshold = ParamOr(config[n], "red_threshold", 1)
                     /\ nodes[n].rule.yellow_to_yellow =
                            ParamOr(config[n], "yellow_to_yellow", 1)
                     /\ nodes[n].rule.yellow_to_red = ParamOr(config[n], "yellow_to_red", 2)

\* a build gave one threshold node the three defaults and another the given
\* red_threshold with the other two defaults
C14_Witness ==
    /\ Loaded /\ buildResult = "ok"
    /\ \E n, m \in Derived(config) :
          /\ "params" \notin config[n].has
          /\ nodes[n].rule = ThresholdRollupRule(1, 1, 2)
          /\ config[m].params = Params({"red_threshold"}, 2, 0, 0)
          /\ nodes[m].rule = ThresholdRollupRule(2, 1, 2)

\* the position of node n in the creation log, 0 for a node that is not in it
LogIndex(n) ==
    IF \E k \in 1..Len(op.log) : op.log[k].node = n
    THEN CHOOSE k \in 1..Len(op.log) : op.log[k].node = n
    ELSE 0

\* the second pass stops: every pass but the last creates a node, so there
\* are at most (derived specifications + 1) passes, and the call then either
\* succeeds with every specification created or fails
FixedPointStops ==
    /\ \A p \in 1..(op.passes - 1) : \E k \in 1..Len(op.log) : op.log[k].pass = p
    /\ op.passes >= 1
    /\ op.passes <= Cardinality(Derived(config)) + 1
    /\ buildResult \in {"ok", "structural", "unknown_rule"}
    /\ buildResult = "ok" => DOMAIN nodes = DOMAIN config

\* C18 as stated: the fixed point stops as above, and a derived node is
\* created only in a pass at whose start all of its dependencies were
\* already created.
C18_CreatedAfterPassOfDependencies ==
    Loaded =>
        /\ FixedPointStops
        /\ \A k \in 1..Len(op.log) :
              \A d \in DepsOfSpec(config, op.log[k].node) :
                  \/ d \in Leaves(config)
                  \/ LogIndex(d) # 0 /\ op.log[LogIndex(d)].pass < op.log[k].pass

\* C18 amended: the fixed point stops as above, and a derived node is
\* created only when all of its dependencies are already created, in an
\* earlier pass or earlier in the same pass, so the creation order is a
\* topological order.
C18_CreatedAfterDependencies ==
    Loaded =>
        /\ FixedPointStops
        /\ \A k \in 1..Len(op.log) :
              \A d \in DepsOfSpec(config, op.log[k].node) :
                  \/ d \in Leaves(config)
                  \/ LogIndex(d) # 0 /\ LogIndex(d) < k

\* a chain over a leaf built in one pass: the dependent was visited after
\* its dependency, and the second pass created nothing
C18_Witness ==
    /\ Loaded /\ buildResult = "ok"
    /\ op.passes = 2 /\ Len(op.log) = 2
    /\ op.log[1].pass = 1 /\ op.log[2].pass = 1
    /\ op.log[1].node \in DepsOfSpec(config, op.log[2].node)
    /\ \E n \in Leaves(config) : n \in DepsOfSpec(config, op.log[1].node)

RECURSIVE GraphClosure(_, _)
GraphClosure(S, k) ==
    IF k = 0 THEN S
    ELSE GraphClosure(S \cup UNION {Range(nodes[m].deps) : m \in S \cap DOMAIN nodes}, k - 1)

\* the nodes that n depends on in the graph built, directly or transitively
GraphReach(n) == GraphClosure(Range(nodes[n].deps), MaxNodes)

\* C13: in a graph produced by a successful build every leaf has no rule and
\* no dependencies, and every derived node has one rule and a dependency
\* list that is not empty, names nodes of the graph only and lies on no
\* cycle; so no graph that was built holds a derived node without
\* dependencies.
C13_BuiltGraphWellFormed ==
    (Loaded /\ buildResult = "ok") =>
        \A n \in DOMAIN nodes :
            IF n \in Leaves(config)
            THEN nodes[n].rule = NoRule /\ nodes[n].deps = <<>>
            ELSE /\ nodes[n].rule.name \in RuleNames
                 /\ nodes[n].deps # <<>>
                 /\ Range(nodes[n].deps) \subseteq DOMAIN nodes
                 /\ n \notin GraphReach(n)

-----------------------------------------------------------------------------
(* Claims about evaluation, under Spec *)

\* the rule a description gives a derived node
RuleOfSpec(spec) == RuleFactoryCreate(RuleName(spec), Value(spec, "params", NoParams)).rule

\* the statuses st of the identities in seq, in order
StatusesOf(st, seq) == [k \in 1..Len(seq) |-> st[seq[k]]]

Evaluated == op.name = "compute" /\ buildResult = "ok"

\* C4: after evaluate() on a built graph every derived node's status is its
\* rule applied to the statuses its dependencies hold then, in declared
\* order, whatever the depth.
C4_DerivedIsRuleOfDependencies ==
    Evaluated =>
        \A n \in Derived(config) :
            status[n] = RuleCompute(RuleOfSpec(config[n]),
                                    StatusesOf(status, DepNames(config[n])))

\* a leaf imported Red has reached the root of a chain of worst_status nodes
C4_Witness ==
    /\ Evaluated
    /\ Type(config[1]) = "imported" /\ status[1] = Red
    /\ RuleName(config[2]) = "worst_status" /\ DepNames(config[2]) = <<1>>
    /\ RuleName(config[3]) = "worst_status" /\ DepNames(config[3]) = <<2>>
    /\ status[3] = Red

\* C5: an evaluate() that directly follows an evaluate() changes no status.
C5_EvaluateIdempotent ==
    [][(op.name = "compute" /\ op'.name = "compute" /\ buildResult = "ok")
          => status' = status]_vars

\* evaluate() ran twice in a row on a graph that holds computed statuses
C5_Witness ==
    /\ Evaluated
    /\ op.streak >= 2
    /\ \E n \in Derived(config) : status[n] \in Severity

RECURSIVE Denotation(_, _, _)
\* the status of n as a function of the description and the leaf statuses
Denotation(cfg, st, n) ==
    IF Type(cfg[n]) = "imported" THEN st[n]
    ELSE LET dep_names == DepNames(cfg[n])
         IN  RuleCompute(RuleOfSpec(cfg[n]),
                         [k \in 1..Len(dep_names) |-> Denotation(cfg, st, dep_names[k])])

\* C6: after an evaluate() the status of every derived node is a function
\* of the graph and of the statuses the leaves hold, whatever calls came
\* before.
C6_DerivedIsFunctionOfLeaves ==
    Evaluated => \A n \in Derived(config) : status[n] = Denotation(config, status, n)

\* an evaluation over a threshold node that feeds a majority node
C6_Witness ==
    /\ Evaluated
    /\ status[1] = Yellow
    /\ RuleName(config[2]) = "threshold_rollup" /\ DepNames(config[2]) = <<1, 1>>
    /\ RuleName(config[3]) = "majority_vote" /\ DepNames(config[3]) = <<2, 1>>
    /\ status[2] = Red /\ status[3] = Yellow

\* C20: on a built graph in which every derived node has a dependency, an
\* evaluate() called while every leaf holds Green, Yellow or Red leaves no
\* derived node Unknown, whatever the rules and the depth.
C20_NoUnknownOverKnownLeaves ==
    (/\ Evaluated
     /\ \A n \in Derived(config) : DepNames(config[n]) # <<>>
     /\ \A n \in Leaves(config) : status[n] \in Severity)
        => \A n \in Derived(config) : status[n] \in Severity

\* a worst_status node over a majority_vote node or a threshold_rollup node
\* over a leaf, evaluated
C20_Witness ==
    /\ Evaluated
    /\ Leaves(config) = {1} /\ status[1] = Yellow
    /\ RuleName(config[2]) \in {"majority_vote", "threshold_rollup"}
    /\ DepNames(config[2]) = <<1>>
    /\ RuleName(config[3]) = "worst_status" /\ DepNames(config[3]) = <<2, 1>>
    /\ status[2] = Yellow /\ status[3] = Yellow

\* the statuses the dependencies of n hold
InputsOf(n) == StatusesOf(status, DepNames(config[n]))

\* a non-empty sequence of Unknown inputs
OnlyUnknown(inputs) == inputs # <<>> /\ Range(inputs) = {Unknown}

\* n has dependencies and all of them are leaves
OverLeaves(n) ==
    DepNames(config[n]) # <<>> /\ Range(DepNames(config[n])) \subseteq Leaves(config)

\* each majority_vote and threshold_rollup node evaluated holds Unknown
\* exactly for no inputs and Green for inputs that are all Unknown, and
\* Threshold gives the same on those inputs with any thresholds of at least 1
UnknownOnlyForNoInputs ==
    \A n \in Derived(config) :
        /\ RuleName(config[n]) \in {"majority_vote", "threshold_rollup"} =>
              /\ status[n] = Unknown <=> InputsOf(n) = <<>>
              /\ OnlyUnknown(InputsOf(n)) => status[n] = Green
        /\ \A rt, yy, yr \in 1..MaxThreshold :
              /\ ThresholdCompute(rt, yy, yr, InputsOf(n)) = Unknown <=> InputsOf(n) = <<>>
              /\ OnlyUnknown(InputsOf(n)) => ThresholdCompute(rt, yy, yr, InputsOf(n)) = Green

\* after an evaluate() with every leaf Unknown, a threshold_rollup or
\* majority_vote node over leaves holds Green, a worst_status node Unknown
UnknownLeavesEvaluated ==
    (\A l \in Leaves(config) : status[l] = Unknown) =>
        \A n \in Derived(config) :
            OverLeaves(n) =>
                status[n] = IF RuleName(config[n]) = "worst_status" THEN Unknown ELSE Green

\* C21 as stated: a rule returns Unknown only when none of its inputs is
\* Green, Yellow or Red; Threshold (thresholds of at least 1) and
\* MajorityVote return Unknown for the empty sequence and Green for every
\* non-empty sequence of Unknown inputs; so an evaluate() before any import
\* leaves every threshold_rollup and majority_vote node over leaves Green
\* and every worst_status node over leaves Unknown.
C21_UnknownOnlyForNothingToAggregate ==
    Evaluated =>
        /\ \A n \in Derived(config) :
              status[n] = Unknown => Range(InputsOf(n)) \cap Severity = {}
        /\ UnknownOnlyForNoInputs
        /\ UnknownLeavesEvaluated

\* C21 amended: the same, but of the three rules only Threshold and
\* MajorityVote return Unknown for nothing but the empty sequence; Worst
\* returns Unknown for the empty sequence and for every sequence that holds
\* an Unknown input, whatever else it holds.
C21_UnknownOnlyForNoInputsButWorst ==
    Evaluated =>
        /\ \A n \in Derived(config) :
              RuleName(config[n]) = "worst_status" =>
                  (status[n] = Unknown <=>
                      (InputsOf(n) = <<>> \/ Unknown \in Range(InputsOf(n))))
        /\ UnknownOnlyForNoInputs
        /\ UnknownLeavesEvaluated

\* a graph evaluated with its leaf Unknown: the majority_vote node over the
\* leaf holds Green, the worst_status node over the same leaf Unknown
C21_Witness ==
    /\ Evaluated
    /\ Leaves(config) = {1} /\ status[1] = Unknown
    /\ RuleName(config[2]) = "majority_vote" /\ DepNames(config[2]) = <<1, 1>>
    /\ RuleName(config[3]) = "worst_status" /\ DepNames(config[3]) = <<1, 1>>
    /\ status[2] = Green /\ status[3] = Unknown

-----------------------------------------------------------------------------
(* Claims about the import and query surface, under Spec *)

\* C11: set_status with an identity that does not resolve to a node fails
\* with the unknown-node error and leaves every status as it was;
\* set_status on an existing leaf succeeds, with any of the four status
\* values, and get_status of that leaf then returns the imported value.
C11_ImportStatus ==
    [][op'.name = "set_status" =>
          IF op'.arg \notin DOMAIN nodes
          THEN op'.err = "unknown_node" /\ status' = status
          ELSE op'.arg \in Leaves(config) =>
                  /\ op'.err = ""
                  /\ op'.arg \in DOMAIN nodes'
                  /\ status'[op'.arg] = op'.val]_vars

\* a leaf was imported Unknown on a graph that holds a computed Red
C11_Witness ==
    /\ op.name = "set_status"
    /\ op.arg \in Leaves(config)
    /\ op.err = "" /\ op.val = Unknown
    /\ GetStatus(op.arg) = Unknown
    /\ \E n \in Derived(config) : status[n] = Red

\* what a get_status step returns: nothing for an identity that is not in
\* the graph, otherwise the status the node holds
ReturnsCurrentStatus ==
    op'.name = "get_status" =>
        op'.val = IF op'.arg \in DOMAIN nodes THEN status[op'.arg] ELSE Nothing

\* every node of a graph just built holds Unknown
BuiltUnknown ==
    (op'.name = "load_config" /\ buildResult' = "ok") =>
        \A n \in DOMAIN nodes' : status'[n] = Unknown

\* C12 as stated: get_status returns nothing for an identity that is not in
\* the graph and otherwise the node's status; after a successful build every
\* status is Unknown, a leaf's status stays Unknown until an import on that
\* leaf and a derived node's status stays Unknown until an evaluate().
C12_UnknownUntilImportOrEvaluate ==
    [][/\ ReturnsCurrentStatus
       /\ BuiltUnknown
       /\ buildResult = "ok" =>
             \A n \in DOMAIN nodes :
                 (status[n] = Unknown /\ status'[n] # Unknown) =>
                     IF n \in Leaves(config)
                     THEN op'.name = "set_status" /\ op'.arg = n
                     ELSE op'.name = "compute"]_vars

\* C12 amended: the same, but a derived node's status stays Unknown until an
\* evaluate() or an import on that derived node, whichever comes first.
C12_UnknownUntilFirstWrite ==
    [][/\ ReturnsCurrentStatus
       /\ BuiltUnknown
       /\ buildResult = "ok" =>
             \A n \in DOMAIN nodes :
                 (status[n] = Unknown /\ status'[n] # Unknown) =>
                     \/ op'.name = "set_status" /\ op'.arg = n
                     \/ n \in Derived(config) /\ op'.name = "compute"]_vars

\* a derived node was read as Unknown while one of its leaves held Red
C12_Witness ==
    /\ buildResult = "ok"
    /\ op.name = "get_status" /\ op.arg \in Derived(config) /\ op.val = Unknown
    /\ \E n \in Leaves(config) :
          n \in DepsOfSpec(config, op.arg) /\ status[n] = Red

\* C16: on a built graph no set_status, compute or get_status call, failed
\* calls included, changes the set of node identities, a node's kind, a
\* derived node's rule or a derived node's ordered dependency list.
C16_TopologyImmutable ==
    [][(buildResult = "ok" /\ op'.name \in {"set_status", "compute", "get_status"}) =>
          /\ DOMAIN nodes' = DOMAIN nodes
          /\ \A n \in DOMAIN nodes :
                /\ (nodes'[n].rule = NoRule) = (nodes[n].rule = NoRule)
                /\ nodes'[n].rule = nodes[n].rule
                /\ nodes'[n].deps = nodes[n].deps
          /\ pipeline' = pipeline]_vars

\* a failed import on a built graph whose statuses were imported and computed
C16_Witness ==
    /\ buildResult = "ok"
    /\ op.name = "set_status" /\ op.err = "unknown_node"
    /\ \E n \in Leaves(config) : status[n] = Yellow
    /\ \E n \in Derived(config) : nodes[n].deps # <<>> /\ status[n] = Yellow

\* C17: set_status on a derived node of a built graph is accepted without
\* an error; get_status returns the imported value until compute() runs;
\* the next compute() leaves every node with the status it would have
\* had, had the derived node held any other status instead, the one it held
\* before the import included.
C17_DerivedImportOverwritten ==
    [][buildResult = "ok" =>
          /\ (op'.name = "set_status" /\ op'.arg \in Derived(config)) =>
                op'.err = "" /\ status'[op'.arg] = op'.val
          /\ op'.name = "get_status" =>
                status' = status /\ op'.val = GetStatus(op'.arg)
          /\ op'.name = "compute" =>
                \A d \in Derived(config), s \in Status :
                    \A order \in ProcessOrders(pipeline) :
                        status' = RunAll([status EXCEPT ![d] = s], order, 1)]_vars

\* a derived node imported Green over a Red leaf, and read back as Green
C17_Witness ==
    /\ buildResult = "ok"
    /\ op.name = "get_status" /\ op.arg \in Derived(config) /\ op.val = Green
    /\ RuleName(config[op.arg]) = "worst_status"
    /\ DepNames(config[op.arg]) # <<>>
    /\ \A n \in DepsOfSpec(config, op.arg) : status[n] = Red

\* C19: a successful set_status changes the status of the named node only;
\* every other node, the derived nodes that depend on it directly or
\* transitively included, keeps its status until compute() is called.
C19_ImportChangesNamedNodeOnly ==
    [][(op'.name = "set_status" /\ op'.err = "") =>
          /\ DOMAIN status' = DOMAIN status
          /\ \A n \in DOMAIN status : n # op'.arg => status'[n] = status[n]]_vars

\* a leaf was imported Red while the worst_status nodes above it, directly
\* and through another node, still hold the Green computed before
C19_Witness ==
    /\ buildResult = "ok"
    /\ op.name = "set_status" /\ op.err = "" /\ op.arg \in Leaves(config)
    /\ status[op.arg] = Red
    /\ \E n, m \in Derived(config) :
          /\ RuleName(config[n]) = "worst_status" /\ DepNames(config[n]) = <<op.arg>>
          /\ RuleName(config[m]) = "worst_status" /\ DepNames(config[m]) = <<n>>
          /\ status[n] = Green /\ status[m] = Green

-----------------------------------------------------------------------------
(* Claims about the conversions, under SpecConv *)

====
